---- MODULE Spec2Model ----
(***************************************************************************)
(* LogWizzy 0.2 (src/lw_main.go, lines 1-313): the ingestion loop that     *)
(* folds journalctl JSON lines into message groups, the ranking of the     *)
(* groups with sort.Slice, the listing that is printed, and the spinner    *)
(* goroutine with its stop channel.                                        *)
(*                                                                         *)
(* Text is a sequence of one-character strings, so that trimming,          *)
(* lower-casing, digit accumulation and byte-wise comparison are computed  *)
(* as the Go code computes them.                                           *)
(***************************************************************************)
EXTENDS Integers, Sequences, FiniteSets, TLC

VARIABLES
    pc,          \* position of main: "scan", "collect", "sort", "ranked" (at
                 \* done <- true), "print", "extra", "summarised"
    input,       \* the lines the producer (journalctl) writes to stdout
    pos,         \* how many lines of input the scanner has consumed
    line,        \* line := scanner.Text(), the line last delivered by Scan
    scanErr,     \* the scanner stopped on an error (bufio.ErrTooLong), not on EOF
    groups,      \* groups: message text -> MessageGroup
    enum,        \* the order in which ranging over the map delivered the groups
    list,        \* list: the slice of groups, sorted in place by sort.Slice
    errorsOnly,  \* flag -e
    important,   \* flag -i
    all,         \* flag -a
    limit,       \* the value of -l, 10 without it
    limitSet,    \* -l was given
    spin,        \* position of the spinner goroutine: "select", "frame"
                 \* (default case taken, frame not yet printed), "sleep", "stopped"
    printed,     \* the groups printed by the main listing, in order
    extra        \* the groups printed under "Additional Errors", in order

\* What the scan loop and the ranking leave alone.
out == <<all, limit, limitSet, spin, printed, extra>>

vars == <<pc, input, pos, line, scanErr, groups, enum, list, errorsOnly, important,
          all, limit, limitSet, spin, printed, extra>>

----------------------------------------------------------------------------
\* Bounds of the model.

\* Longest input stream of the main specification.
MaxLines == 3

\* Largest occurrence count of a group the ranking specification starts from.
MaxCount == 2

\* Largest value given to -l.
MaxLimit == 2

\* defaultLimit := 10
DefaultLimit == 10

\* bufio.MaxScanTokenSize: the scanner is built without a Buffer call, so a
\* line of this many bytes or more makes Scan return false.
MaxScanTokenSize == 65536

----------------------------------------------------------------------------
\* Text.

UpperCase == <<"A","B","C","D","E","F","G","H","I","J","K","L","M",
               "N","O","P","Q","R","S","T","U","V","W","X","Y","Z">>

LowerCase == <<"a","b","c","d","e","f","g","h","i","j","k","l","m",
               "n","o","p","q","r","s","t","u","v","w","x","y","z">>

Digits == <<"0","1","2","3","4","5","6","7","8","9">>

WhiteSpace == {" ", "\t"}

\* Byte order of the characters the model uses (space < digits < upper < lower).
Ord(c) ==
    IF c = "\t" THEN 9
    ELSE IF c = " " THEN 32
    ELSE IF \E i \in 1..10 : Digits[i] = c
         THEN 47 + (CHOOSE i \in 1..10 : Digits[i] = c)
    ELSE IF \E i \in 1..26 : UpperCase[i] = c
         THEN 64 + (CHOOSE i \in 1..26 : UpperCase[i] = c)
    ELSE IF \E i \in 1..26 : LowerCase[i] = c
         THEN 96 + (CHOOSE i \in 1..26 : LowerCase[i] = c)
    ELSE 127

ToLowerChar(c) ==
    IF \E i \in 1..26 : UpperCase[i] = c
    THEN LowerCase[CHOOSE i \in 1..26 : UpperCase[i] = c]
    ELSE c

\* strings.ToLower
ToLower(s) == [i \in 1..Len(s) |-> ToLowerChar(s[i])]

RECURSIVE TrimLeft(_)
TrimLeft(s) ==
    IF s # <<>> /\ Head(s) \in WhiteSpace THEN TrimLeft(Tail(s)) ELSE s

RECURSIVE TrimRight(_)
TrimRight(s) ==
    IF s # <<>> /\ s[Len(s)] \in WhiteSpace
    THEN TrimRight(SubSeq(s, 1, Len(s) - 1))
    ELSE s

\* strings.TrimSpace
TrimSpace(s) == TrimRight(TrimLeft(s))

\* Go's s < t on strings: byte-wise lexicographic.
RECURSIVE StrLess(_, _)
StrLess(s, t) ==
    IF t = <<>> THEN FALSE
    ELSE IF s = <<>> THEN TRUE
    ELSE IF Ord(Head(s)) # Ord(Head(t)) THEN Ord(Head(s)) < Ord(Head(t))
    ELSE StrLess(Tail(s), Tail(t))

----------------------------------------------------------------------------
\* mapPriority, parseInt64, parseTimestamp.

CritTokens == { <<"0">>, <<"e","m","e","r","g">>,
                <<"e","m","e","r","g","e","n","c","y">>,
                <<"1">>, <<"a","l","e","r","t">>, <<"2">>, <<"c","r","i","t">> }

ErroTokens == { <<"3">>, <<"e","r","r">>, <<"e","r","r","o","r">> }

WarnTokens == { <<"4">>, <<"w","a","r","n">>, <<"w","a","r","n","i","n","g">> }

InfoTokens == { <<"5">>, <<"n","o","t","i","c","e">>, <<"i","n","f","o">> }

mapPriorityNoLower(p) ==
    LET q == TrimSpace(p)
    IN  IF q \in CritTokens THEN "CRIT"
        ELSE IF q \in ErroTokens THEN "ERRO"
        ELSE IF q \in WarnTokens THEN "WARN"
        ELSE IF q \in InfoTokens THEN "INFO"
        ELSE "UNKN"

mapPriority(p) ==
    LET q == ToLower(TrimSpace(p))
    IN  IF q \in CritTokens THEN "CRIT"
        ELSE IF q \in ErroTokens THEN "ERRO"
        ELSE IF q \in WarnTokens THEN "WARN"
        ELSE IF q \in InfoTokens THEN "INFO"
        ELSE "UNKN"

IsDigit(c) == \E i \in 1..10 : Digits[i] = c

DigitVal(c) == (CHOOSE i \in 1..10 : Digits[i] = c) - 1

\* parseInt64: accumulates the digits, skips every other character, and
\* never returns an error.  (The tokens of the model are too short for the
\* int64 accumulator to wrap.)
RECURSIVE parseInt64Acc(_, _)
parseInt64Acc(s, v) ==
    IF s = <<>> THEN v
    ELSE parseInt64Acc(Tail(s),
                       IF IsDigit(Head(s)) THEN v * 10 + DigitVal(Head(s)) ELSE v)

parseInt64(s) == [v |-> parseInt64Acc(s, 0), err |-> FALSE]

\* A time.Time: "unix" is time.Unix(0, ns); "now" is time.Now(), read at
\* the given tick of the wall clock; "zero" is time.Time{}.
UnixTime(ns) == [kind |-> "unix", v |-> ns]

NowTime(tick) == [kind |-> "now", v |-> tick]

ZeroTime == [kind |-> "zero", v |-> 0]

parseTimestamp(s) ==
    LET t == TrimSpace(s)
        r == parseInt64(t)
    IN  IF t = <<>> THEN [t |-> ZeroTime, err |-> TRUE]
        ELSE IF ~r.err THEN [t |-> UnixTime(r.v * 1000), err |-> FALSE]
        ELSE [t |-> ZeroTime, err |-> TRUE]

----------------------------------------------------------------------------
\* Input lines and json.Unmarshal.

\* The value a JSON object holds under a key: absent, a JSON string, or a
\* value of another JSON type (number, array, null, ...).
Absent == [type |-> "absent", str |-> <<>>]

NonStr == [type |-> "other", str |-> <<>>]

Str(s) == [type |-> "string", str |-> s]

\* A line of the stream: what it is (whitespace only, text that is not
\* JSON, a JSON value that is not an object, the JSON literal null, or a
\* JSON object), its length in bytes, and for an object the values under
\* the three keys the program reads.
JLine(kind, size, m, p, t) ==
    [kind |-> kind, size |-> size, MESSAGE |-> m, PRIORITY |-> p, TS |-> t]

NoLine == JLine("none", 0, Absent, Absent, Absent)

\* v.(string): the string and whether the assertion succeeded.
AsString(v) == [s |-> IF v.type = "string" THEN v.str ELSE <<>>,
                ok |-> v.type = "string"]

\* strings.TrimSpace(line) == ""
IsBlank(l) == l.kind = "blank"

\* json.Unmarshal([]byte(line), &raw) with raw a map[string]interface{}:
\* text that is not JSON and JSON values that are not objects are errors;
\* null is no error and leaves raw nil, which reads like an empty map.
Unmarshal(l) ==
    IF l.kind \in {"garbage", "nonobject", "blank"}
    THEN [err |-> TRUE, MESSAGE |-> Absent, PRIORITY |-> Absent, TS |-> Absent]
    ELSE IF l.kind = "null"
    THEN [err |-> FALSE, MESSAGE |-> Absent, PRIORITY |-> Absent, TS |-> Absent]
    ELSE [err |-> FALSE, MESSAGE |-> l.MESSAGE, PRIORITY |-> l.PRIORITY, TS |-> l.TS]

\* scanner.Scan() fails with bufio.ErrTooLong on such a line.
TooLong(l) == l.size >= MaxScanTokenSize

\* msg: raw["MESSAGE"].(string), "" otherwise.
MsgOf(raw) == AsString(raw.MESSAGE).s

\* pri: "UNKN" unless raw["PRIORITY"] is a string.
PriOf(raw) ==
    IF AsString(raw.PRIORITY).ok THEN mapPriority(AsString(raw.PRIORITY).s)
    ELSE "UNKN"

\* ts: time.Now() unless raw["__REALTIME_TIMESTAMP"] is a string that
\* parseTimestamp decodes without error.
TsOf(raw, tick) ==
    IF AsString(raw.TS).ok /\ ~parseTimestamp(AsString(raw.TS).s).err
    THEN parseTimestamp(AsString(raw.TS).s).t
    ELSE NowTime(tick)

----------------------------------------------------------------------------
\* The grouping step.

NewGroup(msg, pri, ts) ==
    [Sample |-> msg, Count |-> 1, Level |-> pri, Times |-> <<ts>>]

AddRelevel(g, pri, ts) ==
    [g EXCEPT !.Count = @ + 1, !.Level = pri, !.Times = Append(@, ts)]

AddNoTime(g, pri, ts) ==
    [g EXCEPT !.Count = @ + 1]

AddPrepend(g, pri, ts) ==
    [g EXCEPT !.Count = @ + 1, !.Times = <<ts>> \o @]

\* g.Count++; g.Times = append(g.Times, ts)
AddOccurrence(g, pri, ts) ==
    [g EXCEPT !.Count = @ + 1, !.Times = Append(@, ts)]

\* lines 220-227
Group(gs, msg, pri, ts) ==
    IF msg \in DOMAIN gs
    THEN [gs EXCEPT ![msg] = AddOccurrence(gs[msg], pri, ts)]
    ELSE (msg :> NewGroup(msg, pri, ts)) @@ gs

\* The body of the scan loop for one delivered line, read at clock tick.
Ingest(gs, l, tick) ==
    IF IsBlank(l) THEN gs
    ELSE LET raw == Unmarshal(l)
         IN  IF raw.err THEN gs
             ELSE Group(gs, MsgOf(raw), PriOf(raw), TsOf(raw, tick))

----------------------------------------------------------------------------
\* Ranking: the comparator handed to sort.Slice, and sort.Slice itself.

Levels == {"CRIT", "ERRO", "WARN", "INFO", "UNKN"}

priorityCritFirst(level) ==
    CASE level = "CRIT" -> 4
      [] level = "ERRO" -> 3
      [] level = "WARN" -> 2
      [] level = "INFO" -> 1
      [] OTHER -> 0

\* priority := map[string]int{"CRIT": 3, "ERRO": 3, "WARN": 2, "INFO": 1, "UNKN": 0}
priority(level) ==
    CASE level \in {"CRIT", "ERRO"} -> 3
      [] level = "WARN" -> 2
      [] level = "INFO" -> 1
      [] OTHER -> 0

lessNoTie(gi, gj, sev) ==
    IF sev /\ priority(gi.Level) # priority(gj.Level)
    THEN priority(gi.Level) > priority(gj.Level)
    ELSE gi.Count > gj.Count

lessGeq(gi, gj, sev) ==
    IF sev /\ priority(gi.Level) # priority(gj.Level)
    THEN priority(gi.Level) > priority(gj.Level)
    ELSE gi.Count >= gj.Count

\* The less function of lines 240-260; sev is *errorsOnly || *important.
less(gi, gj, sev) ==
    IF sev
    THEN IF priority(gi.Level) = priority(gj.Level)
         THEN IF gi.Count = gj.Count
              THEN StrLess(gi.Sample, gj.Sample)
              ELSE gi.Count > gj.Count
         ELSE priority(gi.Level) > priority(gj.Level)
    ELSE IF gi.Count = gj.Count
         THEN StrLess(gi.Sample, gj.Sample)
         ELSE gi.Count > gj.Count

Swap(s, i, j) == [s EXCEPT ![i] = s[j], ![j] = s[i]]

\* for j := i; j > a && less(j, j-1); j-- { swap(j, j-1) }
RECURSIVE SinkDown(_, _, _)
SinkDown(s, j, sev) ==
    IF j > 1 /\ less(s[j], s[j - 1], sev)
    THEN SinkDown(Swap(s, j, j - 1), j - 1, sev)
    ELSE s

\* for i := a + 1; i < b; i++ { ... }
RECURSIVE InsertionSort(_, _, _)
InsertionSort(s, i, sev) ==
    IF i > Len(s) THEN s ELSE InsertionSort(SinkDown(s, i, sev), i + 1, sev)

\* sort.Slice on a slice of at most 12 elements is an insertion sort.
SortSlice(s, sev) == InsertionSort(s, 2, sev)

\* Every order in which ranging over the map can deliver its groups.
Enumerations(gs) ==
    LET n == Cardinality(DOMAIN gs)
    IN  { [i \in 1..n |-> gs[p[i]]] :
            p \in { q \in [1..n -> DOMAIN gs] :
                      \A i, j \in 1..n : i # j => q[i] # q[j] } }

----------------------------------------------------------------------------
\* The program.

\* Scan delivers the next line and the loop body runs on it (lines 192-228).
ScanLine ==
    /\ pc = "scan"
    /\ pos < Len(input)
    /\ ~TooLong(input[pos + 1])
    /\ line' = input[pos + 1]
    /\ pos' = pos + 1
    /\ groups' = Ingest(groups, input[pos + 1], pos + 1)
    /\ UNCHANGED <<pc, input, scanErr, enum, list, errorsOnly, important, out>>

\* Scan returns false at the end of the stream.
ScanEOF ==
    /\ pc = "scan"
    /\ pos = Len(input)
    /\ pc' = "collect"
    /\ UNCHANGED <<input, pos, line, scanErr, groups, enum, list, errorsOnly, important, out>>

\* Scan returns false on a line it cannot hold: the loop ends as at EOF.
ScanTooLong ==
    /\ pc = "scan"
    /\ pos < Len(input)
    /\ TooLong(input[pos + 1])
    /\ pc' = "collect"
    /\ scanErr' = TRUE
    /\ UNCHANGED <<input, pos, line, groups, enum, list, errorsOnly, important, out>>

\* lines 231-234: the map is ranged over in an unspecified order.
Collect ==
    /\ pc = "collect"
    /\ \E e \in Enumerations(groups) : enum' = e /\ list' = e
    /\ pc' = "sort"
    /\ UNCHANGED <<input, pos, line, scanErr, groups, errorsOnly, important, out>>

\* lines 240-260
Sort ==
    /\ pc = "sort"
    /\ list' = SortSlice(list, errorsOnly \/ important)
    /\ pc' = "ranked"
    /\ UNCHANGED <<input, pos, line, scanErr, groups, enum, errorsOnly, important, out>>

\* Neither -a nor -l: limit keeps defaultLimit.
DefaultLimitFlags == all = FALSE /\ limit = DefaultLimit /\ limitSet = FALSE

\* go spinner(done) has run up to its select; nothing of the summary is
\* printed yet.
NothingPrinted == spin = "select" /\ printed = <<>> /\ extra = <<>>

----------------------------------------------------------------------------
\* Inputs.

Msgs == { <<"a">>, <<"b">> }

ObjectLine(m, p, t) == JLine("object", 80, m, p, t)

SpecialLines ==
    { JLine("blank", 1, Absent, Absent, Absent),
      JLine("garbage", 80, Absent, Absent, Absent),
      JLine("garbage", MaxScanTokenSize, Absent, Absent, Absent),
      JLine("nonobject", 7, Absent, Absent, Absent),
      JLine("null", 4, Absent, Absent, Absent) }

SeverityLines ==
    { ObjectLine(Str(m), Str(<<"3">>), Absent) : m \in Msgs }
    \cup { ObjectLine(Str(<<"a">>), Str(<<" ","W","a","r","n">>), Absent),
           ObjectLine(Absent, Absent, Absent),
           ObjectLine(NonStr, NonStr, NonStr) }

TimestampLines ==
    { ObjectLine(Str(<<"a">>), Absent, Str(t)) :
        t \in { <<>>, <<" ">>, <<"a","b","c">>, <<"1","a","2">> } }

Lines == SpecialLines \cup SeverityLines \cup TimestampLines

SeqsUpTo(S, n) == UNION { [1..k -> S] : k \in 0..n }

Init ==
    /\ pc = "scan"
    /\ input \in SeqsUpTo(Lines, MaxLines)
    /\ pos = 0
    /\ line = NoLine
    /\ scanErr = FALSE
    /\ groups = <<>>
    /\ enum = <<>>
    /\ list = <<>>
    /\ errorsOnly \in BOOLEAN
    /\ important \in BOOLEAN
    /\ DefaultLimitFlags
    /\ NothingPrinted

Next == ScanLine \/ ScanEOF \/ ScanTooLong \/ Collect \/ Sort

Spec == Init /\ [][Next]_vars

----------------------------------------------------------------------------
\* The severity normalizer on its own: one record per run, its priority
\* token drawn from the table's tokens and from tokens outside it, in three
\* casings and with white space around.

ToUpperChar(c) ==
    IF \E i \in 1..26 : LowerCase[i] = c
    THEN UpperCase[CHOOSE i \in 1..26 : LowerCase[i] = c]
    ELSE c

Cased(casing, s) ==
    CASE casing = "upper" -> [i \in 1..Len(s) |-> ToUpperChar(s[i])]
      [] casing = "title" -> [i \in 1..Len(s) |->
                                 IF i = 1 THEN ToUpperChar(s[i]) ELSE s[i]]
      [] OTHER -> s

OtherTokens == { <<>>, <<"6">>, <<"7">>, <<"8">>, <<"d","e","b","u","g">>,
                 <<"e","r","r","o","r","s">>, <<"e"," ","r","r">>,
                 <<"c","r","i","t","i","c","a","l">> }

Recipes ==
    [ base : CritTokens \cup ErroTokens \cup WarnTokens \cup InfoTokens
               \cup OtherTokens,
      casing : {"lower", "upper", "title"},
      lpad : { <<>>, <<" ">>, <<"\t", " ">> },
      rpad : { <<>>, <<" ">> } ]

Build(r) == r.lpad \o Cased(r.casing, r.base) \o r.rpad

NormLines ==
    { ObjectLine(Str(<<"a">>), Str(Build(r)), Absent) : r \in Recipes }
    \cup { ObjectLine(Str(<<"a">>), Absent, Absent),
           ObjectLine(Str(<<"a">>), NonStr, Absent) }

InitNorm ==
    /\ pc = "scan"
    /\ input \in { <<l>> : l \in NormLines }
    /\ pos = 0
    /\ line = NoLine
    /\ scanErr = FALSE
    /\ groups = <<>>
    /\ enum = <<>>
    /\ list = <<>>
    /\ errorsOnly \in BOOLEAN
    /\ important \in BOOLEAN
    /\ DefaultLimitFlags
    /\ NothingPrinted

NextNorm == ScanLine \/ ScanEOF \/ Collect \/ Sort

SpecNorm == InitNorm /\ [][NextNorm]_vars

----------------------------------------------------------------------------
\* The ranker on its own: main at line 230, with a group mapping that
\* ingestion can have built (the stream that built it is not represented).

RankMsgs == { <<"a">>, <<"a","b">>, <<"B">> }

GroupMaps ==
    UNION { { [m \in S |-> [Sample |-> m,
                            Count |-> f[m].c,
                            Level |-> f[m].l,
                            Times |-> [i \in 1..f[m].c |-> UnixTime(0)]]] :
                f \in [S -> [c : 1..MaxCount, l : Levels]] } :
            S \in SUBSET RankMsgs }

InitRank ==
    /\ pc = "collect"
    /\ input = <<>>
    /\ pos = 0
    /\ line = NoLine
    /\ scanErr = FALSE
    /\ groups \in GroupMaps
    /\ enum = <<>>
    /\ list = <<>>
    /\ errorsOnly \in BOOLEAN
    /\ important \in BOOLEAN
    /\ DefaultLimitFlags
    /\ NothingPrinted

NextRank == Collect \/ Sort

SpecRank == InitRank /\ [][NextRank]_vars

----------------------------------------------------------------------------
\* The listing (lines 262-309) and the spinner (lines 59-74).

\* g.Level == "CRIT" || g.Level == "ERRO"
IsError(g) == g.Level \in {"CRIT", "ERRO"}

\* !*all && !*important && !*errorsOnly: the listing is cut at limit.
Limited(e, im, a) == ~a /\ ~im /\ ~e

\* The loop of lines 271-293 from element i on; acc holds the groups
\* printed so far, so shown is Len(acc).
RECURSIVE PrintLoop(_, _, _, _, _, _, _)
PrintLoop(l, i, acc, e, im, a, lim) ==
    IF i > Len(l) THEN acc
    ELSE IF e /\ ~IsError(l[i])
         THEN PrintLoop(l, i + 1, acc, e, im, a, lim)
    ELSE IF im /\ ~(IsError(l[i]) \/ l[i].Level = "WARN")
         THEN PrintLoop(l, i + 1, acc, e, im, a, lim)
    ELSE IF Limited(e, im, a) /\ Len(acc) >= lim
         THEN acc
    ELSE PrintLoop(l, i + 1, Append(acc, l[i]), e, im, a, lim)

\* Lines 299-309: every CRIT and ERRO group again, in default mode without -l.
ExtraErrors(l, e, im, a, set) ==
    IF ~e /\ ~im /\ ~a /\ ~set THEN SelectSeq(l, IsError) ELSE <<>>

\* done <- true meets case <-done: the channel is unbuffered, so main
\* passes line 262 in the step in which the spinner's select receives; the
\* spinner clears its line and returns.
Handoff ==
    /\ pc = "ranked"
    /\ spin = "select"
    /\ pc' = "print"
    /\ spin' = "stopped"
    /\ UNCHANGED <<input, pos, line, scanErr, groups, enum, list, errorsOnly,
                   important, all, limit, limitSet, printed, extra>>

\* lines 263-293
PrintMain ==
    /\ pc = "print"
    /\ printed' = PrintLoop(list, 1, <<>>, errorsOnly, important, all, limit)
    /\ pc' = "extra"
    /\ UNCHANGED <<input, pos, line, scanErr, groups, enum, list, errorsOnly,
                   important, all, limit, limitSet, spin, extra>>

\* lines 299-309
PrintExtra ==
    /\ pc = "extra"
    /\ extra' = ExtraErrors(list, errorsOnly, important, all, limitSet)
    /\ pc' = "summarised"
    /\ UNCHANGED <<input, pos, line, scanErr, groups, enum, list, errorsOnly,
                   important, all, limit, limitSet, spin, printed>>

\* The select finds no sender on done and takes its default case.  With
\* main blocked in done <- true the receive is ready and default is not
\* taken.
SpinDefault ==
    /\ spin = "select"
    /\ pc # "ranked"
    /\ spin' = "frame"
    /\ UNCHANGED <<pc, input, pos, line, scanErr, groups, enum, list, errorsOnly,
                   important, all, limit, limitSet, printed, extra>>

\* fmt.Printf("\rLoading logs... %c ", ...), then time.Sleep.
SpinFrame ==
    /\ spin = "frame"
    /\ spin' = "sleep"
    /\ UNCHANGED <<pc, input, pos, line, scanErr, groups, enum, list, errorsOnly,
                   important, all, limit, limitSet, printed, extra>>

\* The sleep ends; i++ and back to the select.
SpinWake ==
    /\ spin = "sleep"
    /\ spin' = "select"
    /\ UNCHANGED <<pc, input, pos, line, scanErr, groups, enum, list, errorsOnly,
                   important, all, limit, limitSet, printed, extra>>

\* The values -l can leave in limit and limitSet.
LimitChoices ==
    { [limit |-> DefaultLimit, set |-> FALSE] }
    \cup { [limit |-> n, set |-> TRUE] : n \in 0..MaxLimit }

\* The listing on its own: main at line 262 with the list any enumeration
\* of a group mapping sorts to, under every setting of -e, -i, -a and -l.
InitPrint ==
    /\ pc = "ranked"
    /\ input = <<>>
    /\ pos = 0
    /\ line = NoLine
    /\ scanErr = FALSE
    /\ groups \in GroupMaps
    /\ errorsOnly \in BOOLEAN
    /\ important \in BOOLEAN
    /\ all \in BOOLEAN
    /\ \E c \in LimitChoices : limit = c.limit /\ limitSet = c.set
    /\ enum = CHOOSE en \in Enumerations(groups) : TRUE
    /\ list = SortSlice(enum, errorsOnly \/ important)
    /\ NothingPrinted

NextPrint == Handoff \/ PrintMain \/ PrintExtra

SpecPrint == InitPrint /\ [][NextPrint]_vars

\* The whole program with the spinner beside it, on short streams.
SpinLines ==
    { JLine("blank", 1, Absent, Absent, Absent),
      JLine("garbage", MaxScanTokenSize, Absent, Absent, Absent),
      ObjectLine(Str(<<"a">>), Str(<<"3">>), Absent),
      ObjectLine(Str(<<"b">>), Absent, Absent) }

InitSpin ==
    /\ pc = "scan"
    /\ input \in SeqsUpTo(SpinLines, MaxLines)
    /\ pos = 0
    /\ line = NoLine
    /\ scanErr = FALSE
    /\ groups = <<>>
    /\ enum = <<>>
    /\ list = <<>>
    /\ errorsOnly \in BOOLEAN
    /\ important = FALSE
    /\ all = FALSE
    /\ \E c \in LimitChoices : limit = c.limit /\ limitSet = c.set
    /\ NothingPrinted

Main == Next \/ PrintMain \/ PrintExtra

Spinner == SpinDefault \/ SpinFrame \/ SpinWake

NextSpin == Main \/ Spinner \/ Handoff

\* Both goroutines are scheduled fairly, and a rendezvous that stays
\* possible takes place.
SpecSpin ==
    InitSpin /\ [][NextSpin]_vars
        /\ WF_vars(Main) /\ WF_vars(Spinner) /\ WF_vars(Handoff)

----------------------------------------------------------------------------
\* What the claims speak of.

\* The loop body folds the line into the groups: it is not blank and it
\* decodes.
Accepted(l) == ~IsBlank(l) /\ ~Unmarshal(l).err

\* The message text the record of an accepted line carries.
TextOf(l) == MsgOf(Unmarshal(l))

\* The places in the stream, among the lines consumed so far, of the
\* records that carry message text m.
Occurrences(m) == { i \in 1..pos : Accepted(input[i]) /\ TextOf(input[i]) = m }

Least(S) == CHOOSE i \in S : \A j \in S : i <= j

RECURSIVE Ascending(_)
Ascending(S) ==
    IF S = {} THEN <<>> ELSE <<Least(S)>> \o Ascending(S \ {Least(S)})

\* A line that is structured key/value data: a JSON object.
WellFormed(l) == l.kind = "object"

WellFormedAt == { i \in 1..Len(input) : WellFormed(input[i]) }

RECURSIVE SumCounts(_, _)
SumCounts(gs, S) ==
    IF S = {} THEN 0
    ELSE LET m == CHOOSE x \in S : TRUE
         IN  gs[m].Count + SumCounts(gs, S \ {m})

\* C1: the severity stored in a group is the severity normalized from the
\* priority token of the first record that carried its message text; later
\* records with the same text and another token do not change it.
C1_SeverityOfFirstRecord ==
    \A m \in DOMAIN groups :
        /\ Occurrences(m) # {}
        /\ groups[m].Level = PriOf(Unmarshal(input[Least(Occurrences(m))]))

\* A group whose message arrived again with a token of another severity.
C1_Witness ==
    \E m \in DOMAIN groups :
        \E i \in Occurrences(m) :
            /\ i > Least(Occurrences(m))
            /\ PriOf(Unmarshal(input[i])) # groups[m].Level

\* C2: in every state reached during ingestion every group has
\* Count = Len(Times) and Count >= 1.
C2_CountIsLenTimes ==
    \A m \in DOMAIN groups :
        /\ groups[m].Count = Len(groups[m].Times)
        /\ groups[m].Count >= 1

\* Two groups, one of them seen more than once.
C2_Witness ==
    /\ Cardinality(DOMAIN groups) >= 2
    /\ \E m \in DOMAIN groups : groups[m].Count >= 2

\* C3: once ingestion has ended, whatever the input lines were, there is
\* exactly one group per message text of a well-formed record of the
\* stream (no message field counting as the empty text), and the counts of
\* the groups add up to the number of well-formed records.
C3_EveryRecordAbsorbed ==
    pc # "scan" =>
        /\ DOMAIN groups = { AsString(input[i].MESSAGE).s : i \in WellFormedAt }
        /\ SumCounts(groups, DOMAIN groups) = Cardinality(WellFormedAt)

\* C4: the group of message text m has as many occurrences as records
\* carrying m were folded, and its Times are the timestamps of those
\* records in the order of their arrival (so every earlier entry stays
\* where it is when a later one is appended).
C4_TimesInArrivalOrder ==
    \A m \in DOMAIN groups :
        LET at == Ascending(Occurrences(m))
        IN  /\ groups[m].Count = Len(at)
            /\ groups[m].Times =
                   [k \in 1..Len(at) |-> TsOf(Unmarshal(input[at[k]]), at[k])]

\* Two records of one message with a record of another message between them.
C4_Witness ==
    \E m \in DOMAIN groups :
        /\ groups[m].Count = 2
        /\ Occurrences(m) = {1, 3}
        /\ Accepted(input[2])
        /\ groups[m].Times[1] # groups[m].Times[2]

\* A line that is blank or is not structured key/value data.
Malformed(l) == l.kind \in {"blank", "garbage", "nonobject", "null"}

\* C5: when the next line of the stream is blank or is not well-formed
\* key/value data, processing it leaves the group mapping as it was and
\* the loop goes on to the line after it.
C5_MalformedLineSkipped ==
    [][ (pc = "scan" /\ pos < Len(input) /\ Malformed(input[pos + 1]))
          => (groups' = groups /\ pc' = "scan" /\ pos' = pos + 1) ]_vars

NoDigit(s) == \A i \in 1..Len(s) : ~IsDigit(s[i])

\* C6: a record whose timestamp token is empty, white space only or made
\* of non-digit characters only fails to decode, and the timestamp recorded
\* for it is the current wall-clock time.
C6_NonDigitTokenFallsBack ==
    (line.kind = "object" /\ line.TS.type = "string" /\ NoDigit(line.TS.str))
        => LET ts == groups[TextOf(line)].Times
           IN  ts[Len(ts)].kind = "now"

\* The table of the claim.
ClaimedLevel(b) ==
    CASE b \in { <<"0">>, <<"e","m","e","r","g">>,
                 <<"e","m","e","r","g","e","n","c","y">>, <<"1">>,
                 <<"a","l","e","r","t">>, <<"2">>, <<"c","r","i","t">> } -> "CRIT"
      [] b \in { <<"3">>, <<"e","r","r">>, <<"e","r","r","o","r">> } -> "ERRO"
      [] b \in { <<"4">>, <<"w","a","r","n">>,
                 <<"w","a","r","n","i","n","g">> } -> "WARN"
      [] b \in { <<"5">>, <<"n","o","t","i","c","e">>, <<"i","n","f","o">> } -> "INFO"
      [] OTHER -> "UNKN"

\* C7: the severity given to a record is one of the five levels; when its
\* priority token is a table token in any casing with white space around
\* it, the level is the table's; for any other token (the empty one, "6",
\* "7", ...) and for an absent priority field it is UNKN.
C7_NormalizerTable ==
    (line.kind = "object" /\ pos = 1) =>
        LET lvl == groups[TextOf(line)].Level
        IN  /\ lvl \in Levels
            /\ line.PRIORITY.type = "absent" => lvl = "UNKN"
            /\ line.PRIORITY.type = "string" =>
                 \A r \in Recipes :
                     line.PRIORITY.str = Build(r) => lvl = ClaimedLevel(r.base)

\* The token " ERR " was classified ERRO.
C7_Witness ==
    /\ pos = 1
    /\ line.kind = "object"
    /\ line.PRIORITY = Str(<<" ", "E", "R", "R", " ">>)
    /\ groups[TextOf(line)].Level = "ERRO"

\* list holds every group of the mapping once.
IsRankingOf(l, gs) ==
    /\ Len(l) = Cardinality(DOMAIN gs)
    /\ \A m \in DOMAIN gs : \E i \in 1..Len(l) : l[i] = gs[m]

\* g stands before h by count descending, then sample text ascending.
ByCountThenText(g, h) ==
    \/ g.Count > h.Count
    \/ g.Count = h.Count /\ StrLess(g.Sample, h.Sample)

\* C8: in frequency mode the ranked list holds the groups by count
\* descending, ties by sample text ascending; as the texts differ this
\* fixes the list, whatever order the map was enumerated in.
C8_FrequencyOrder ==
    (pc = "ranked" /\ ~(errorsOnly \/ important)) =>
        /\ IsRankingOf(list, groups)
        /\ \A i, j \in 1..Len(list) : i < j => ByCountThenText(list[i], list[j])

\* Three groups, two of them of equal count, enumerated in an order the
\* sort had to change.
C8_Witness ==
    /\ pc = "ranked"
    /\ ~(errorsOnly \/ important)
    /\ Len(list) = 3
    /\ list[1].Count = list[2].Count
    /\ list[2].Count > list[3].Count
    /\ enum[1] = list[2]
    /\ enum[2] = list[3]

\* The three severity bands of the claim.
Band3(level) ==
    CASE level \in {"CRIT", "ERRO"} -> 3
      [] level = "WARN" -> 2
      [] OTHER -> 1

\* The four severity bands: INFO stands above UNKN.
Band4(level) ==
    CASE level \in {"CRIT", "ERRO"} -> 3
      [] level = "WARN" -> 2
      [] level = "INFO" -> 1
      [] OTHER -> 0

\* C9 as claimed: in severity mode CRIT/ERRO groups stand before WARN
\* groups, WARN groups before INFO/UNKN groups, and within each of the
\* three bands the order is count descending, then sample text ascending.
C9_ThreeBands ==
    (pc = "ranked" /\ (errorsOnly \/ important)) =>
        \A i, j \in 1..Len(list) : i < j =>
            \/ Band3(list[i].Level) > Band3(list[j].Level)
            \/ /\ Band3(list[i].Level) = Band3(list[j].Level)
               /\ ByCountThenText(list[i], list[j])

\* C9 as amended: in severity mode CRIT/ERRO groups stand before WARN
\* groups, WARN groups before INFO groups, INFO groups before UNKN groups,
\* and within each of the four bands the order is count descending, then
\* sample text ascending.
C9_FourBands ==
    (pc = "ranked" /\ (errorsOnly \/ important)) =>
        /\ IsRankingOf(list, groups)
        /\ \A i, j \in 1..Len(list) : i < j =>
            \/ Band4(list[i].Level) > Band4(list[j].Level)
            \/ /\ Band4(list[i].Level) = Band4(list[j].Level)
               /\ ByCountThenText(list[i], list[j])

\* A CRIT group of count 1 ranked behind an ERRO group of count 2 and
\* before a WARN group of count 2, enumerated in another order.
C9_Witness ==
    /\ pc = "ranked"
    /\ errorsOnly \/ important
    /\ Len(list) = 3
    /\ list[1].Level = "ERRO" /\ list[1].Count = 2
    /\ list[2].Level = "CRIT" /\ list[2].Count = 1
    /\ list[3].Level = "WARN" /\ list[3].Count = 2
    /\ enum # list

\* C10: ranking the ranked list again, in the same mode, gives the same
\* list, in frequency mode and in severity mode.
C10_RankIdempotent ==
    pc = "ranked" => SortSlice(list, errorsOnly \/ important) = list

\* A severity-mode ranking of three groups, two of equal severity and
\* count, that the sort had to reorder.
C10_Witness ==
    /\ pc = "ranked"
    /\ errorsOnly \/ important
    /\ Len(list) = 3
    /\ \E i \in 1..2 : /\ priority(list[i].Level) = priority(list[i + 1].Level)
                       /\ list[i].Count = list[i + 1].Count
    /\ enum # list

\* The group passes the severity filter of the flags given.
PassesFilter(g) ==
    /\ errorsOnly => IsError(g)
    /\ important => (IsError(g) \/ g.Level = "WARN")

Smaller(a, b) == IF a <= b THEN a ELSE b

\* C11: without -a the main listing holds at most limit groups, whatever
\* -i and -e are, and they are the first groups of the ranked list that
\* pass the severity filter.
C11_LimitBoundsListing ==
    (pc \in {"extra", "summarised"} /\ ~all) =>
        LET passing == SelectSeq(list, PassesFilter)
        IN  /\ Len(printed) <= limit
            /\ printed = SubSeq(passing, 1, Smaller(limit, Len(passing)))

\* The stop signal has been handed over.
Stopped == spin = "stopped"

\* C12: the spinner is stopped only once the whole input has been consumed
\* and the list is ranked; main blocked in the send is always released by
\* the spinner receiving, after which the spinner prints no frame; and the
\* summary is printed in the end.
C12_StopSignal ==
    /\ [](Stopped => (pos = Len(input) /\ pc \in {"print", "extra", "summarised"}))
    /\ [](Stopped => []Stopped)
    /\ (pc = "ranked") ~> (Stopped /\ pc # "ranked")
    /\ <>(pc = "summarised")

====
